---- MODULE Spec2Model ----
(***************************************************************************)
(* Tool relationship graph and combination sampler.                        *)
(*                                                                         *)
(*   ToolGraph                 src/modules/agent_synthesizer/tool_graph.py *)
(*   ToolCombinationGenerator  src/modules/agent_synthesizer/              *)
(*                                 tool_combination_generator.py           *)
(*                                                                         *)
(* Tool ids are the naturals 1, 2, ... (tool k stands for the string id  *)
(* "t<k>"; their numeric order is the lexicographic order of the strings). *)
(* Similarities and edge weights are kept in hundredths: 70 is 0.70.       *)
(* Embeddings are integer vectors of integer norm, so that the cosine of   *)
(* two of them is an exact number of hundredths.                           *)
(***************************************************************************)
EXTENDS Integers, Sequences, FiniteSets, TLC

VARIABLES
    tools,               \* the tool list handed to build_graph / process
    config,              \* ToolGraph.config: the dict handed to the constructor
    max_edges_per_node,  \* ToolGraph.max_edges_per_node
    graph,               \* ToolGraph.graph: [nodes: Seq(id), adj: id -> Seq(<<id, weight, edge_type>>)]
    pc,                  \* position of the running operation
    pass,                \* build: index i of the outer loop of _build_edges_by_similarity
    offered,             \* build: number of add_edge calls made by the last ranking pass
    walk,                \* the running traversal call: its arguments and locals
    result,              \* value returned by the last operation
    min_tools_per_agent, \* ToolCombinationGenerator.min_tools_per_agent
    max_tools_per_agent, \* ToolCombinationGenerator.max_tools_per_agent
    target_count,        \* input_data['target_count']
    scenario_groups,     \* process: dict scenario id -> tools, in insertion order
    scenario_graphs,     \* process: dict scenario id -> ToolGraph, in insertion order
    scenario,            \* index of the scenario the running loop is at
    draw,                \* _generate_random_walk_combinations: loop variable i
    batch,               \* _generate_random_walk_combinations: its list combinations
    combinations,        \* _generate_combinations_from_scenarios: its list combinations
    clock,               \* the last value datetime.now() returned
    replay,              \* the random draws of the first call, replayed by a second one
    stats                \* value returned by the last get_combination_stats

graphVars == <<config, max_edges_per_node, graph, pass, offered, walk>>

samplerVars == <<min_tools_per_agent, max_tools_per_agent, target_count,
                 scenario_groups, scenario_graphs, scenario, draw, batch,
                 combinations, clock, replay, stats>>

vars == <<tools, pc, result, graphVars, samplerVars>>

----------------------------------------------------------------------------
(* Bounds of the model *)

BuildTools == 4
WalkTools == 3
MaxCount == 3
MaxTarget == 2
MaxClock == 1
ReplayTools == 3
MaxCandidates == 3
ClusterTools == 4
MaxSize == 4
ConfigTools == 3
RestartTools == 2
RebuildTools == 3

(* Program constants, in hundredths where they are similarities *)

similarity_threshold == 70
min_similarity_threshold == 50
default_max_edges_per_node == 10
walk_length == 6
restart_probability == 15

(* None: a parameter the caller does not pass, a key the dict does not hold *)
NotSet == -1

----------------------------------------------------------------------------
(* Sequence helpers *)

Range(s) == {s[k] : k \in 1..Len(s)}

Contains(s, x) == \E k \in 1..Len(s) : s[k] = x

NoDup(s) == \A a, b \in 1..Len(s) : s[a] = s[b] => a = b

Take(s, n) == IF n <= 0 THEN <<>> ELSE SubSeq(s, 1, IF n < Len(s) THEN n ELSE Len(s))

RECURSIVE SelectSeqBy(_, _)
SelectSeqBy(s, keep) ==
    IF s = <<>> THEN <<>>
    ELSE IF Head(s) \in keep THEN <<Head(s)>> \o SelectSeqBy(Tail(s), keep)
         ELSE SelectSeqBy(Tail(s), keep)

(* All orders in which the elements of a set can be listed: list(a_set) in
   Python, whose order depends on the hashes of the strings. *)
Orders(S) == {s \in [1..Cardinality(S) -> S] : Range(s) = S}

----------------------------------------------------------------------------
(* Embeddings and cosine similarity *)

NoEmbedding == <<>>

Embeddings == {<<5, 0>>, <<4, 3>>, <<3, 4>>, <<-3, 4>>, <<0, 0>>}

RECURSIVE Dot(_, _)
Dot(u, v) == IF u = <<>> THEN 0 ELSE Head(u) * Head(v) + Dot(Tail(u), Tail(v))

Isqrt(n) == CHOOSE r \in 0..n : r * r <= n /\ (r + 1) * (r + 1) > n

Norm(u) == Isqrt(Dot(u, u))

(* _calculate_cosine_similarity: vectors of different lengths make np.dot
   raise, which the except clause turns into 0.0 *)
_calculate_cosine_similarity(e1, e2) ==
    IF Len(e1) # Len(e2) THEN 0
    ELSE IF Norm(e1) = 0 \/ Norm(e2) = 0 THEN 0
    ELSE (100 * Dot(e1, e2)) \div (Norm(e1) * Norm(e2))

----------------------------------------------------------------------------
(* The graph: networkx.Graph keeps nodes and each node's adjacency in
   insertion order *)

EmptyGraph == [nodes |-> <<>>, adj |-> <<>>]

(* mutant: the graph is not cleared *)
ClearSkipped(g) == g

(* graph.clear() *)
clear(g) == EmptyGraph

HasNode(g, n) == Contains(g.nodes, n)

neighbors(g, n) == [k \in 1..Len(g.adj[n]) |-> g.adj[n][k][1]]

HasEdge(g, a, b) == HasNode(g, a) /\ Contains(neighbors(g, a), b)

EdgeData(g, a, b) == g.adj[a][CHOOSE k \in 1..Len(g.adj[a]) : g.adj[a][k][1] = b]

Weight(g, a, b) == EdgeData(g, a, b)[2]

EdgeType(g, a, b) == EdgeData(g, a, b)[3]

add_node(g, n) ==
    IF HasNode(g, n) THEN g
    ELSE [nodes |-> Append(g.nodes, n), adj |-> g.adj @@ (n :> <<>>)]

PutNbr(row, b, w, ty) ==
    IF Contains([k \in 1..Len(row) |-> row[k][1]], b)
    THEN [k \in 1..Len(row) |-> IF row[k][1] = b THEN <<b, w, ty>> ELSE row[k]]
    ELSE Append(row, <<b, w, ty>>)

add_edge(g, a, b, w, ty) ==
    LET g1 == add_node(add_node(g, a), b)
    IN  [g1 EXCEPT !.adj = [n \in DOMAIN g1.adj |->
            IF n = a THEN PutNbr(g1.adj[n], b, w, ty)
            ELSE IF n = b THEN PutNbr(g1.adj[n], a, w, ty)
            ELSE g1.adj[n]]]

Edges(g) == {<<a, b>> \in Range(g.nodes) \X Range(g.nodes) : HasEdge(g, a, b)}

----------------------------------------------------------------------------
(* build_graph *)

Truthy(e) == e # NoEmbedding

tools_with_embeddings(ts) ==
    SelectSeqBy(ts, {t \in Range(ts) : Truthy(t.embedding)})

RECURSIVE AddNodes(_, _)
AddNodes(g, ts) ==
    IF ts = <<>> THEN g ELSE AddNodes(add_node(g, Head(ts).id), Tail(ts))

(* similarities of tool i: the later tools j > i at or above the minimum
   threshold, in list order *)
RECURSIVE SimilaritiesFrom(_, _, _)
SimilaritiesFrom(twe, i, j) ==
    IF j > Len(twe) THEN <<>>
    ELSE LET s == _calculate_cosine_similarity(twe[i].embedding, twe[j].embedding)
         IN  (IF s >= min_similarity_threshold THEN <<<<twe[j].id, s>>>> ELSE <<>>)
             \o SimilaritiesFrom(twe, i, j + 1)

(* mutant: the tool next in the list is left out of the ranking *)
SimilaritiesSkipNext(twe, i) == SimilaritiesFrom(twe, i, i + 2)

Similarities(twe, i) == SimilaritiesFrom(twe, i, i + 1)

(* list.sort(key=lambda x: x[1], reverse=True): stable, descending *)
RECURSIVE InsertDesc(_, _)
InsertDesc(sorted, x) ==
    IF sorted = <<>> THEN <<x>>
    ELSE IF Head(sorted)[2] >= x[2] THEN <<Head(sorted)>> \o InsertDesc(Tail(sorted), x)
         ELSE <<x>> \o sorted

RECURSIVE SortDesc(_)
SortDesc(s) ==
    IF s = <<>> THEN <<>>
    ELSE InsertDesc(SortDesc(SubSeq(s, 1, Len(s) - 1)), s[Len(s)])

(* mutant: the retention threshold is not applied *)
RankingOfferUnfiltered(twe, i, cap) == Take(SortDesc(Similarities(twe, i)), cap)

(* mutant: the ranking is not cut to max_edges_per_node *)
RankingOfferUncapped(twe, i, cap) ==
    LET top == SortDesc(Similarities(twe, i))
    IN  SelectSeqBy(top, {p \in Range(top) : p[2] >= similarity_threshold})

(* the pairs of tool i's ranking for which add_edge is called *)
RankingOffer(twe, i, cap) ==
    LET top == Take(SortDesc(Similarities(twe, i)), cap)
    IN  SelectSeqBy(top, {p \in Range(top) : p[2] >= similarity_threshold})

RECURSIVE AddOffer(_, _, _)
AddOffer(g, a, offer) ==
    IF offer = <<>> THEN g
    ELSE AddOffer(add_edge(g, a, Head(offer)[1], Head(offer)[2], "similarity"), a, Tail(offer))

EdgePass(g, twe, i, cap) == AddOffer(g, twe[i].id, RankingOffer(twe, i, cap))

RECURSIVE EdgePassesFrom(_, _, _, _)
EdgePassesFrom(g, twe, i, cap) ==
    IF i > Len(twe) THEN g
    ELSE EdgePassesFrom(EdgePass(g, twe, i, cap), twe, i + 1, cap)

_build_edges_by_similarity(g, ts, cap) ==
    EdgePassesFrom(g, tools_with_embeddings(ts), 1, cap)

build_graph(ts, cap) == _build_edges_by_similarity(AddNodes(EmptyGraph, ts), ts, cap)

(* build_graph raises AgentDataGenException: tool.get('metadata') is None for
   some tool, so that the list of tools with embeddings cannot be formed *)
BuildRaises(ts) == \E t \in Range(ts) : ~t.metadata

----------------------------------------------------------------------------
(* Traversal primitives *)

(* s[:n] of Python: a negative n drops the last -n elements *)
Prefix(s, n) ==
    IF n >= 0 THEN Take(s, n) ELSE Take(s, Len(s) + n)

(* mutant: the neighbours are not sorted by weight *)
RelatedToolsUnsorted(g, tool_id, max_count) ==
    IF ~HasNode(g, tool_id) THEN <<>>
    ELSE Prefix(neighbors(g, tool_id), max_count)

(* get_related_tools: the direct neighbours by descending weight (stable on
   the adjacency order), truncated to max_count *)
get_related_tools(g, tool_id, max_count) ==
    IF ~HasNode(g, tool_id) THEN <<>>
    ELSE LET neighbor_weights ==
                 SortDesc([k \in 1..Len(g.adj[tool_id]) |->
                              <<g.adj[tool_id][k][1], g.adj[tool_id][k][2]>>])
             top == Prefix(neighbor_weights, max_count)
         IN  [k \in 1..Len(top) |-> top[k][1]]

(* _weighted_random_choice: the neighbours np.random.choice can return; a
   zero total weight or a rejected distribution falls back to random.choice *)
_weighted_random_choice(g, current_tool) ==
    LET row == g.adj[current_tool]
        positive == {row[k][1] : k \in {j \in 1..Len(row) : row[j][2] > 0}}
        negative == {row[k][1] : k \in {j \in 1..Len(row) : row[j][2] < 0}}
    IN  IF positive = {} \/ negative # {} THEN Range(neighbors(g, current_tool))
        ELSE positive

(* values of random.random(), in hundredths *)
RandomUnit == {0, 14, 15, 99}

(* the locals of random_walk_selection on entry to the loop; restart_prob or
   self.restart_probability: None and 0 both give the default *)
WalkStart(start_tool, count, restart_prob) ==
    [start |-> start_tool, count |-> count,
     restart_arg |-> restart_prob,
     restart_prob |-> IF restart_prob \in {NotSet, 0} THEN restart_probability
                      ELSE restart_prob,
     selected |-> {}, current |-> start_tool, step |-> 0]

(* mutant: the break counts the visited nodes other than start *)
WalkOverNonStart(w) ==
    \/ w.step >= walk_length * w.count
    \/ Cardinality(w.selected \ {w.start}) >= w.count

(* the loop is left: budget used up, or the break *)
WalkOver(w) ==
    \/ w.step >= walk_length * w.count
    \/ Cardinality(w.selected) >= w.count

(* one iteration of the loop, for a value r of random.random() and a choice
   nxt of _weighted_random_choice *)
WalkBody(g, w, r, nxt) ==
    LET sel == w.selected \cup {w.current}
        cur == IF r < w.restart_prob THEN w.start
               ELSE IF neighbors(g, w.current) = <<>> THEN w.start
               ELSE nxt
    IN  [w EXCEPT !.selected = sel, !.current = cur, !.step = w.step + 1]

WalkSuccessors(g, w) ==
    {WalkBody(g, w, r, nxt) :
        r \in RandomUnit,
        nxt \in IF neighbors(g, w.current) = <<>> THEN {w.start}
                ELSE _weighted_random_choice(g, w.current)}

(* mutant: the start tool is not discarded *)
WalkSelectionKeepStart(g, w) ==
    IF Cardinality(w.selected) < w.count
    THEN w.selected
           \cup Range(get_related_tools(g, w.start, w.count - Cardinality(w.selected)))
    ELSE w.selected

(* after the loop: drop the start, pad with the start's best neighbours *)
WalkSelection(g, w) ==
    LET sel == w.selected \ {w.start}
    IN  IF Cardinality(sel) < w.count
        THEN sel \cup Range(get_related_tools(g, w.start, w.count - Cardinality(sel)))
        ELSE sel

(* list(selected_tools)[:count]: every listing order of the set *)
WalkReturns(g, w) == {Prefix(o, w.count) : o \in Orders(WalkSelection(g, w))}

(* random_walk_selection, whole: every list it can return.  WalkRuns follows
   the loop from a set of walk states to the states in which it is left. *)
RECURSIVE WalkRuns(_, _)
WalkRuns(g, W) ==
    LET over == {w \in W : WalkOver(w)}
        live == W \ over
    IN  IF live = {} THEN over
        ELSE over \cup WalkRuns(g, UNION {WalkSuccessors(g, w) : w \in live})

(* mutant: a start tool that is not a node is returned as the selection *)
RandomWalkAbsentKept(g, start_tool, count, restart_prob) ==
    IF ~HasNode(g, start_tool) THEN {Prefix(<<start_tool>>, count)}
    ELSE UNION {WalkReturns(g, w) :
                    w \in WalkRuns(g, {WalkStart(start_tool, count, restart_prob)})}

random_walk_selection(g, start_tool, count, restart_prob) ==
    IF ~HasNode(g, start_tool) THEN {<<>>}
    ELSE UNION {WalkReturns(g, w) :
                    w \in WalkRuns(g, {WalkStart(start_tool, count, restart_prob)})}

(* the locals of get_tool_cluster on entry to the loop *)
ClusterStart(tool_id, max_size) ==
    [tool_id |-> tool_id, max_size |-> max_size, visited |-> {},
     queue |-> <<tool_id>>, cluster |-> <<>>]

ClusterOver(c) == c.queue = <<>> \/ Len(c.cluster) >= c.max_size

(* the for loop over the neighbours of the node just visited *)
RECURSIVE Enqueue(_, _, _, _, _)
Enqueue(queue, nbrs, visited, cluster_len, max_size) ==
    IF nbrs = <<>> THEN queue
    ELSE Enqueue(IF Head(nbrs) \notin visited /\ cluster_len + Len(queue) < max_size
                 THEN Append(queue, Head(nbrs)) ELSE queue,
                 Tail(nbrs), visited, cluster_len, max_size)

(* mutant: a node taken from the queue is not tested against visited *)
ClusterBodyRevisit(g, c) ==
    LET current == Head(c.queue)
    IN  [c EXCEPT !.visited = @ \cup {current},
                  !.cluster = Append(@, current),
                  !.queue = Enqueue(Tail(c.queue), neighbors(g, current),
                                    c.visited \cup {current}, Len(c.cluster) + 1,
                                    c.max_size)]

(* one iteration of the while loop of get_tool_cluster *)
ClusterBody(g, c) ==
    LET current == Head(c.queue)
    IN  IF current \in c.visited THEN [c EXCEPT !.queue = Tail(@)]
        ELSE [c EXCEPT !.visited = @ \cup {current},
                       !.cluster = Append(@, current),
                       !.queue = Enqueue(Tail(c.queue), neighbors(g, current),
                                         c.visited \cup {current}, Len(c.cluster) + 1,
                                         c.max_size)]

----------------------------------------------------------------------------
(* ToolCombinationGenerator *)

(* sorted(tool_ids) *)
RECURSIVE InsertAsc(_, _)
InsertAsc(sorted, x) ==
    IF sorted = <<>> THEN <<x>>
    ELSE IF Head(sorted) <= x THEN <<Head(sorted)>> \o InsertAsc(Tail(sorted), x)
         ELSE <<x>> \o sorted

RECURSIVE Sorted(_)
Sorted(s) == IF s = <<>> THEN <<>> ELSE InsertAsc(Sorted(Tail(s)), Head(s))

(* DataProcessor.generate_id with data: the prefix and the first 8 hex digits
   of the md5 of the JSON text of data.  The digest is modelled by the data
   it is taken of (collisions of the digest are left out). *)
generate_id(prefix, data) == [prefix |-> prefix, md5 |-> data]

(* _create_combination_record; now is the value of datetime.now(); the
   metadata dict, which repeats scenario and method, is left out *)
_create_combination_record(scenario_id, tool_ids, method, start_tool, now) ==
    [id |-> generate_id("combination",
                        [scenario |-> scenario_id, tools |-> Sorted(tool_ids),
                         timestamp |-> now]),
     scenario_id |-> scenario_id,
     tool_ids |-> tool_ids,
     generation_method |-> method,
     start_tool |-> start_tool,
     tool_count |-> Len(tool_ids)]

(* mutant: a tool is grouped under its last scenario id *)
AddToGroupLast(groups, t) ==
    LET primary_scenario == t.scenario_ids[Len(t.scenario_ids)]
    IN  IF \E k \in 1..Len(groups) : groups[k].scenario_id = primary_scenario
        THEN [k \in 1..Len(groups) |->
                 IF groups[k].scenario_id = primary_scenario
                 THEN [groups[k] EXCEPT !.tools = Append(@, t)]
                 ELSE groups[k]]
        ELSE Append(groups, [scenario_id |-> primary_scenario, tools |-> <<t>>])

(* _group_tools_by_scenario, before the size filter: a defaultdict in
   insertion order; tools without scenario go to no_scenario_tools, which is
   never read again *)
AddToGroup(groups, t) ==
    LET primary_scenario == Head(t.scenario_ids)
    IN  IF \E k \in 1..Len(groups) : groups[k].scenario_id = primary_scenario
        THEN [k \in 1..Len(groups) |->
                 IF groups[k].scenario_id = primary_scenario
                 THEN [groups[k] EXCEPT !.tools = Append(@, t)]
                 ELSE groups[k]]
        ELSE Append(groups, [scenario_id |-> primary_scenario, tools |-> <<t>>])

RECURSIVE GroupAll(_, _)
GroupAll(groups, ts) ==
    IF ts = <<>> THEN groups
    ELSE GroupAll(IF Head(ts).scenario_ids # <<>> THEN AddToGroup(groups, Head(ts))
                  ELSE groups,
                  Tail(ts))

(* mutant: the groups are not filtered by size *)
GroupsUnfiltered(ts, mn) == GroupAll(<<>>, ts)

_group_tools_by_scenario(ts, mn) ==
    LET all == GroupAll(<<>>, ts)
    IN  SelectSeqBy(all, {grp \in Range(all) : Len(grp.tools) >= mn})

(* mutant: the failure of a build is not caught, the graph is kept as built *)
ScenarioGraphsUncaught(graphs, grp) ==
    Append(graphs, [scenario_id |-> grp.scenario_id,
                    graph |-> build_graph(grp.tools, default_max_edges_per_node)])

(* one iteration of the loop of _build_scenario_graphs: a new ToolGraph with
   the default parameters is built and stored, unless the build raises, which
   the except clause answers with continue *)
ScenarioGraphsAfter(graphs, grp) ==
    IF BuildRaises(grp.tools) THEN graphs
    ELSE Append(graphs, [scenario_id |-> grp.scenario_id,
                         graph |-> build_graph(grp.tools, default_max_edges_per_node)])

(* mutant: the loop runs while len(selected_tools) <= min_tools_per_agent *)
RECURSIVE TopUpsOneMore(_, _, _)
TopUpsOneMore(selected_tools, available_tools, mn) ==
    IF Len(selected_tools) > mn THEN {selected_tools}
    ELSE LET remaining_tools ==
                 SelectSeqBy(available_tools,
                             Range(available_tools) \ Range(selected_tools))
         IN  IF remaining_tools = <<>> THEN {selected_tools}
             ELSE UNION {TopUpsOneMore(Append(selected_tools, t), available_tools, mn) :
                            t \in Range(remaining_tools)}

(* mutant: the top-up draws among all tools of the scenario *)
RECURSIVE TopUpsAnyTool(_, _, _)
TopUpsAnyTool(selected_tools, available_tools, mn) ==
    IF Len(selected_tools) >= mn THEN {selected_tools}
    ELSE UNION {TopUpsAnyTool(Append(selected_tools, t), available_tools, mn) :
                   t \in Range(available_tools)}

(* mutant: no top-up *)
TopUpsNone(selected_tools, available_tools, mn) == {selected_tools}

(* mutant: the loop runs while len(selected_tools) < min_tools_per_agent - 1 *)
RECURSIVE TopUpsStopShort(_, _, _)
TopUpsStopShort(selected_tools, available_tools, mn) ==
    IF Len(selected_tools) >= mn - 1 THEN {selected_tools}
    ELSE LET remaining_tools ==
                 SelectSeqBy(available_tools,
                             Range(available_tools) \ Range(selected_tools))
         IN  IF remaining_tools = <<>> THEN {selected_tools}
             ELSE UNION {TopUpsStopShort(Append(selected_tools, t), available_tools, mn) :
                            t \in Range(remaining_tools)}

(* the while loop of _generate_random_walk_combinations: every list the
   random top-up can end with *)
RECURSIVE TopUps(_, _, _)
TopUps(selected_tools, available_tools, mn) ==
    IF Len(selected_tools) >= mn THEN {selected_tools}
    ELSE LET remaining_tools ==
                 SelectSeqBy(available_tools,
                             Range(available_tools) \ Range(selected_tools))
         IN  IF remaining_tools = <<>> THEN {selected_tools}
             ELSE UNION {TopUps(Append(selected_tools, t), available_tools, mn) :
                            t \in Range(remaining_tools)}

(* mutant: the start tool is appended to the walk result *)
WithStartAppended(walked, start_tool, combo_size) ==
    Prefix(IF Contains(walked, start_tool) THEN walked ELSE Append(walked, start_tool),
           combo_size)

(* the walk result with the start tool put in front, cut to combo_size *)
WithStart(walked, start_tool, combo_size) ==
    Prefix(IF Contains(walked, start_tool) THEN walked ELSE <<start_tool>> \o walked,
           combo_size)

(* mutant: the signature is the tool ids in walk order *)
RECURSIVE DedupByOrder(_, _, _)
DedupByOrder(combos, seen_signatures, unique_combinations) ==
    IF combos = <<>> THEN unique_combinations
    ELSE LET tool_signature == Head(combos).tool_ids
         IN  IF tool_signature \notin seen_signatures
             THEN DedupByOrder(Tail(combos), seen_signatures \cup {tool_signature},
                               Append(unique_combinations, Head(combos)))
             ELSE DedupByOrder(Tail(combos), seen_signatures, unique_combinations)

(* mutant: of the candidates with one signature the last is kept *)
RECURSIVE DedupKeepLast(_, _, _)
DedupKeepLast(combos, seen_signatures, unique_combinations) ==
    IF combos = <<>> THEN unique_combinations
    ELSE LET tool_signature == Sorted(Head(combos).tool_ids)
         IN  IF \A later \in Range(Tail(combos)) : Sorted(later.tool_ids) # tool_signature
             THEN DedupKeepLast(Tail(combos), seen_signatures,
                                Append(unique_combinations, Head(combos)))
             ELSE DedupKeepLast(Tail(combos), seen_signatures, unique_combinations)

(* _deduplicate_combinations *)
RECURSIVE DedupFrom(_, _, _)
DedupFrom(combos, seen_signatures, unique_combinations) ==
    IF combos = <<>> THEN unique_combinations
    ELSE LET tool_signature == Sorted(Head(combos).tool_ids)
         IN  IF tool_signature \notin seen_signatures
             THEN DedupFrom(Tail(combos), seen_signatures \cup {tool_signature},
                            Append(unique_combinations, Head(combos)))
             ELSE DedupFrom(Tail(combos), seen_signatures, unique_combinations)

_deduplicate_combinations(combos) == DedupFrom(combos, {}, <<>>)

(* collections.Counter over a list: the distinct values in the order of their
   first occurrence, each with the number of its occurrences *)
RECURSIVE CounterFrom(_, _)
CounterFrom(counts, xs) ==
    IF xs = <<>> THEN counts
    ELSE CounterFrom(
             IF \E k \in 1..Len(counts) : counts[k][1] = Head(xs)
             THEN [k \in 1..Len(counts) |->
                      IF counts[k][1] = Head(xs) THEN <<counts[k][1], counts[k][2] + 1>>
                      ELSE counts[k]]
             ELSE Append(counts, <<Head(xs), 1>>),
             Tail(xs))

Counter(xs) == CounterFrom(<<>>, xs)

(* Counter.most_common(n): by descending count, ties in first-seen order *)
most_common(counter, n) == Take(SortDesc(counter), n)

RECURSIVE SumOf(_)
SumOf(xs) == IF xs = <<>> THEN 0 ELSE Head(xs) + SumOf(Tail(xs))

MinOf(xs) == CHOOSE m \in Range(xs) : \A x \in Range(xs) : m <= x

MaxOf(xs) == CHOOSE m \in Range(xs) : \A x \in Range(xs) : m >= x

RECURSIVE AllToolIds(_)
AllToolIds(combos) ==
    IF combos = <<>> THEN <<>> ELSE Head(combos).tool_ids \o AllToolIds(Tail(combos))

(* get_combination_stats: a dict is the list of its <<key, value>> items in
   insertion order, an average the pair <<sum, number of terms>> *)
get_combination_stats(combos) ==
    IF combos = <<>> THEN [called |-> TRUE, empty |-> TRUE]
    ELSE LET tool_counts == [k \in 1..Len(combos) |-> Len(combos[k].tool_ids)]
             methods == [k \in 1..Len(combos) |-> combos[k].generation_method]
             scenarios == [k \in 1..Len(combos) |-> combos[k].scenario_id]
             tool_usage == Counter(AllToolIds(combos))
         IN  [called |-> TRUE,
              empty |-> FALSE,
              total_combinations |-> Len(combos),
              tool_count_distribution |->
                  [min |-> MinOf(tool_counts),
                   max |-> MaxOf(tool_counts),
                   avg |-> <<SumOf(tool_counts), Len(tool_counts)>>,
                   distribution |-> Counter(tool_counts)],
              generation_method_distribution |-> Counter(methods),
              scenario_distribution |-> most_common(Counter(scenarios), 10),
              tool_usage_stats |->
                  [unique_tools_used |-> Len(tool_usage),
                   most_used_tools |-> most_common(tool_usage, 10),
                   avg_usage_per_tool |->
                       <<SumOf([k \in 1..Len(tool_usage) |-> tool_usage[k][2]]),
                         Len(tool_usage)>>]]

----------------------------------------------------------------------------
(* Inputs *)

(* a tool: embedding is tool['metadata']['embedding'] (NoEmbedding when the
   key is missing or the list empty), metadata tells whether the tool has a
   'metadata' entry at all *)
Tool(k, sc, e) == [id |-> k, scenario_ids |-> sc, embedding |-> e, metadata |-> TRUE]

BareTool(k, sc) ==
    [id |-> k, scenario_ids |-> sc, embedding |-> NoEmbedding, metadata |-> FALSE]

EmbeddingChoices == Embeddings \cup {NoEmbedding}

(* pools of n tools with ids 1..n, every tool in scenario "S1" *)
PoolsOver(n, embs) ==
    {[k \in 1..n |-> Tool(k, <<"S1">>, es[k])] : es \in [1..n -> embs]}

EdgeCaps == {1, 2, default_max_edges_per_node}

NoWalk == [start |-> 0, count |-> 0, restart_arg |-> NotSet, restart_prob |-> 0,
           selected |-> {}, current |-> 0, step |-> 0]

(* ToolGraph(logger=...): no configuration *)
NoConfig ==
    [similarity_threshold |-> NotSet, min_similarity_threshold |-> NotSet,
     max_edges_per_node |-> NotSet, restart_probability |-> NotSet,
     walk_length |-> NotSet]

(* ToolGraph.__init__(config): the attributes of a new instance; config goes
   to BaseModule.__init__, which stores it, and no attribute is read from it *)
ToolGraphInit(cfg) ==
    [similarity_threshold |-> similarity_threshold,
     min_similarity_threshold |-> min_similarity_threshold,
     max_edges_per_node |-> default_max_edges_per_node,
     restart_probability |-> restart_probability,
     walk_length |-> walk_length]

NoReplay == [call |-> 1, rng |-> <<>>, pos |-> 0, first |-> <<>>]

(* get_combination_stats has not been called *)
NoStats == [called |-> FALSE]

(* the sampler is not in use *)
SamplerIdle ==
    /\ min_tools_per_agent = 0
    /\ max_tools_per_agent = 0
    /\ target_count = 0
    /\ scenario_groups = <<>>
    /\ scenario_graphs = <<>>
    /\ scenario = 0
    /\ draw = 0
    /\ batch = <<>>
    /\ combinations = <<>>
    /\ clock = 0
    /\ replay = NoReplay
    /\ stats = NoStats

----------------------------------------------------------------------------
(* Build: ToolGraph.build_graph run pass by pass on one instance *)

(* twelve tools on which the default cap of ten edges per ranking binds: the
   first tool, ten tools at 0.96 from it, and a last tool at 0.80 from the
   first and 0.60 from the ten *)
DefaultCapPool ==
    [k \in 1..12 |->
        Tool(k, <<"S1">>, IF k = 1 THEN <<4, 3>> ELSE IF k = 12 THEN <<5, 0>> ELSE <<3, 4>>)]

(* twelve tools on which the default cap binds for the first ten: ten equal
   tools, then a tool at 0.96 from them and a last tool at 0.96 from them and
   0.86 from the eleventh *)
LateRankingPool ==
    [k \in 1..12 |->
        Tool(k, <<"S1">>, IF k = 11 THEN <<4, 3>> ELSE IF k = 12 THEN <<5, 12>> ELSE <<3, 4>>)]

(* the example of five tools A..E: A-B at 0.96, A-C at 0.80, B-C at 0.60 (two
   vectors at 0.95 and 0.80 from a third are at 0.57 or more from each other),
   every other pair at 0.28 or less *)
ExamplePool ==
    <<Tool(1, <<"S1">>, <<4, 3>>), Tool(2, <<"S1">>, <<3, 4>>),
      Tool(3, <<"S1">>, <<5, 0>>), Tool(4, <<"S1">>, <<-3, 4>>),
      Tool(5, <<"S1">>, <<0, 0>>)>>

(* the cap is the default, or a smaller value assigned to the attribute so
   that it binds on the small pools *)
InitBuild ==
    /\ \/ /\ tools \in UNION {PoolsOver(n, EmbeddingChoices) : n \in 1..BuildTools}
          /\ max_edges_per_node \in EdgeCaps
       \/ /\ tools \in {DefaultCapPool, LateRankingPool, ExamplePool}
          /\ max_edges_per_node = default_max_edges_per_node
    /\ config = NoConfig
    /\ graph = EmptyGraph
    /\ pc = "start"
    /\ pass = 0
    /\ offered = 0
    /\ walk = NoWalk
    /\ result = <<>>
    /\ SamplerIdle

(* graph.clear(), then one node per tool *)
BuildBegin ==
    /\ pc = "start"
    /\ graph' = AddNodes(clear(graph), tools)
    /\ pass' = 1
    /\ pc' = "edges"
    /\ UNCHANGED <<tools, config, max_edges_per_node, offered, walk, result, samplerVars>>

(* one iteration of the outer loop of _build_edges_by_similarity *)
BuildPass ==
    /\ pc = "edges"
    /\ pass <= Len(tools_with_embeddings(tools))
    /\ graph' = EdgePass(graph, tools_with_embeddings(tools), pass, max_edges_per_node)
    /\ offered' = Len(RankingOffer(tools_with_embeddings(tools), pass, max_edges_per_node))
    /\ pass' = pass + 1
    /\ UNCHANGED <<tools, config, max_edges_per_node, pc, walk, result, samplerVars>>

BuildEnd ==
    /\ pc = "edges"
    /\ pass > Len(tools_with_embeddings(tools))
    /\ pc' = "built"
    /\ UNCHANGED <<tools, config, max_edges_per_node, graph, pass, offered, walk, result,
                   samplerVars>>

NextBuild == BuildBegin \/ BuildPass \/ BuildEnd

SpecBuild == InitBuild /\ [][NextBuild]_vars

----------------------------------------------------------------------------
(* Properties of Build *)

EmbeddingOf(id) == tools[CHOOSE k \in 1..Len(tools) : tools[k].id = id].embedding

Embedded == {t.id : t \in {u \in Range(tools) : Truthy(u.embedding)}}

Sim(a, b) == _calculate_cosine_similarity(EmbeddingOf(a), EmbeddingOf(b))

(* C5: every edge of the graph carries the cosine similarity of its two
   endpoints' embeddings as weight, that weight is at or above the retention
   threshold, and its edge_type is "similarity" *)
C5_EdgeAdmission ==
    \A e \in Edges(graph) :
        /\ Weight(graph, e[1], e[2]) = Sim(e[1], e[2])
        /\ Weight(graph, e[1], e[2]) >= similarity_threshold
        /\ EdgeType(graph, e[1], e[2]) = "similarity"

(* a finished build with an edge, next to a pair whose similarity clears the
   minimum threshold but not the retention threshold and is left unconnected *)
C5_Witness ==
    /\ pc = "built"
    /\ Edges(graph) # {}
    /\ \E a, b \in Embedded :
          /\ a # b
          /\ Sim(a, b) >= min_similarity_threshold
          /\ Sim(a, b) < similarity_threshold
          /\ ~HasEdge(graph, a, b)

(* C7: after Build every embedded tool T is adjacent to each tool N that is
   among T's max_edges_per_node most similar embedded tools of the call (fewer
   than max_edges_per_node others are at least as similar to T as N) and whose
   similarity is at or above the retention threshold.  Stated for the default
   max_edges_per_node, the value every ToolGraph of the repository runs with. *)
C7_TopNeighboursAdjacent ==
    (pc = "built" /\ max_edges_per_node = default_max_edges_per_node) =>
        \A T \in Embedded : \A N \in Embedded \ {T} :
            ( /\ Sim(T, N) >= similarity_threshold
              /\ Cardinality({M \in Embedded \ {T, N} : Sim(T, M) >= Sim(T, N)})
                    < max_edges_per_node )
            => HasEdge(graph, T, N)

(* N is among the max_edges_per_node tools most similar to T, of all other
   embedded tools of the call (ties counted in N's favour), at or above the
   retention threshold *)
AdmittedBy(T, N) ==
    /\ Sim(T, N) >= similarity_threshold
    /\ Cardinality({M \in Embedded \ {T, N} : Sim(T, M) > Sim(T, N)}) < max_edges_per_node

(* C17: every edge of the graph is admitted by the ranking of one of its
   endpoints, taken over all other embedded tools of the call.  Stated for
   the default max_edges_per_node. *)
C17_EdgeAdmittedByEndpoint ==
    max_edges_per_node = default_max_edges_per_node =>
        \A e \in Edges(graph) : AdmittedBy(e[1], e[2]) \/ AdmittedBy(e[2], e[1])

Swapped(ts, a, b) ==
    [k \in 1..Len(ts) |-> IF k = a THEN ts[b] ELSE IF k = b THEN ts[a] ELSE ts[k]]

RetainedPairs ==
    {<<a, b>> \in Embedded \X Embedded : a # b /\ Sim(a, b) >= similarity_threshold}

(* C18: when the minimum threshold is at most the retention threshold and no
   embedded tool has more than max_edges_per_node other embedded tools at or
   above the retention threshold, the edges of the built graph are exactly the
   pairs at or above the retention threshold; the same edges come out when two
   neighbouring tools of the list are exchanged (the exchanges that make up
   every reordering); on the example
   the edges are A-B and A-C, and D and E are nodes without edge *)
C18_ExactEdgeSet ==
    ( /\ pc = "built"
      /\ min_similarity_threshold <= similarity_threshold
      /\ \A T \in Embedded :
            Cardinality({N \in Embedded \ {T} : Sim(T, N) >= similarity_threshold})
                <= max_edges_per_node )
    => /\ Edges(graph) = RetainedPairs
       /\ \A a \in 1..(Len(tools) - 1) :
             Edges(build_graph(Swapped(tools, a, a + 1), max_edges_per_node)) = Edges(graph)
       /\ tools = ExamplePool =>
             /\ Edges(graph) = {<<1, 2>>, <<2, 1>>, <<1, 3>>, <<3, 1>>}
             /\ Weight(graph, 1, 2) = 96
             /\ Weight(graph, 1, 3) = 80
             /\ Range(graph.nodes) = 1..5

(* the example, built *)
C18_Witness ==
    /\ pc = "built"
    /\ tools = ExamplePool
    /\ Edges(graph) # {}
    /\ neighbors(graph, 4) = <<>>
    /\ neighbors(graph, 5) = <<>>

(* C19: the ranking pass of a tool calls add_edge at most max_edges_per_node
   times, and the edges it adds, those from the tool to later tools of the
   list, are as many *)
C19_FanOutBound ==
    (pc = "edges" /\ pass > 1) =>
        LET twe == tools_with_embeddings(tools)
            i == pass - 1
        IN  /\ offered <= max_edges_per_node
            /\ Cardinality({j \in (i + 1)..Len(twe) :
                               HasEdge(graph, twe[i].id, twe[j].id)}) = offered

(* a graph built with the default cap in which a tool has more than
   max_edges_per_node neighbours, through the passes of earlier tools *)
C19_Witness ==
    /\ pc = "built"
    /\ max_edges_per_node = default_max_edges_per_node
    /\ \E n \in Range(graph.nodes) : Len(neighbors(graph, n)) > max_edges_per_node

----------------------------------------------------------------------------
(* Walk: random_walk_selection run iteration by iteration on a built graph *)

WalkEmbeddings == {<<5, 0>>, <<4, 3>>, <<3, 4>>, <<-3, 4>>}

InitWalk ==
    /\ tools \in UNION {PoolsOver(n, WalkEmbeddings) : n \in 1..WalkTools}
    /\ config = NoConfig
    /\ max_edges_per_node = default_max_edges_per_node
    /\ graph = EmptyGraph
    /\ pc = "start"
    /\ pass = 0
    /\ offered = 0
    /\ walk = NoWalk
    /\ result = <<>>
    /\ SamplerIdle

(* build_graph, whole *)
Build ==
    /\ pc = "start"
    /\ graph' = build_graph(tools, max_edges_per_node)
    /\ pc' = "built"
    /\ UNCHANGED <<tools, config, max_edges_per_node, pass, offered, walk, result, samplerVars>>

(* no traversal is running on the built graph *)
WalkIdle == {"built", "returned", "absent", "related"}

(* the positions from which the model follows a call that does not walk: the
   graph as built, or as such a call left it *)
LookupIdle == {"built", "absent", "related"}

(* ids a caller may pass: those of the tools, and one more *)
CallerIds == 1..(WalkTools + 1)

(* random_walk_selection(start_tool, count) is called on a node of the graph *)
WalkBegin ==
    /\ pc \in WalkIdle
    /\ \E start_tool \in Range(graph.nodes), count \in 0..MaxCount :
          walk' = WalkStart(start_tool, count, NotSet)
    /\ result' = <<>>
    /\ pc' = "walking"
    /\ UNCHANGED <<tools, config, max_edges_per_node, graph, pass, offered, samplerVars>>

WalkIter ==
    /\ pc = "walking"
    /\ ~WalkOver(walk)
    /\ walk' \in WalkSuccessors(graph, walk)
    /\ UNCHANGED <<tools, config, max_edges_per_node, graph, pc, pass, offered, result,
                   samplerVars>>

WalkReturn ==
    /\ pc = "walking"
    /\ WalkOver(walk)
    /\ result' \in WalkReturns(graph, walk)
    /\ pc' = "returned"
    /\ UNCHANGED <<tools, config, max_edges_per_node, graph, pass, offered, walk, samplerVars>>

(* random_walk_selection(start_tool, count) is called with a start tool that
   is not a node of the graph *)
WalkAbsent ==
    /\ pc \in LookupIdle
    /\ \E start_tool \in CallerIds \ Range(graph.nodes), count \in 0..MaxCount :
          /\ walk' = [NoWalk EXCEPT !.start = start_tool, !.count = count]
          /\ result' \in random_walk_selection(graph, start_tool, count, NotSet)
    /\ pc' = "absent"
    /\ UNCHANGED <<tools, config, max_edges_per_node, graph, pass, offered, samplerVars>>

(* get_related_tools(tool_id, max_count); walk keeps the two arguments *)
Related ==
    /\ pc \in LookupIdle
    /\ \E tool_id \in CallerIds, max_count \in 0..MaxCount :
          /\ walk' = [NoWalk EXCEPT !.start = tool_id, !.count = max_count]
          /\ result' = get_related_tools(graph, tool_id, max_count)
    /\ pc' = "related"
    /\ UNCHANGED <<tools, config, max_edges_per_node, graph, pass, offered, samplerVars>>

NextWalk == Build \/ WalkBegin \/ WalkIter \/ WalkReturn \/ WalkAbsent \/ Related

SpecWalk == InitWalk /\ [][NextWalk]_vars

----------------------------------------------------------------------------
(* Properties of random_walk_selection *)

RECURSIVE Reach(_, _)
Reach(g, S) ==
    LET S2 == S \cup UNION {Range(neighbors(g, n)) : n \in S}
    IN  IF S2 = S THEN S ELSE Reach(g, S2)

NeighbourSet(g, n) == Range(neighbors(g, n))

(* C6: on return the result has exactly count ids, or every direct neighbour
   of start is in the result *)
C6_CountOrNeighboursExhausted ==
    pc = "returned" =>
        \/ Len(result) = walk.count
        \/ NeighbourSet(graph, walk.start) \subseteq Range(result)

(* C8: the result has at most count ids, no duplicates and not the start, all
   of them reachable from the start by edges; an isolated start gives the
   empty list *)
C8_WalkResultShape ==
    pc = "returned" =>
        /\ Len(result) <= walk.count
        /\ NoDup(result)
        /\ ~Contains(result, walk.start)
        /\ Range(result) \subseteq Reach(graph, {walk.start}) \cap Range(graph.nodes)
        /\ (NeighbourSet(graph, walk.start) = {} => result = <<>>)

(* a walk that returned two ids, one of them two edges away from start *)
C8_Witness ==
    /\ pc = "returned"
    /\ Len(result) = 2
    /\ \E x \in Range(result) : x \notin NeighbourSet(graph, walk.start)

(* C24: the loop runs at most walk_length * count iterations, and it is left
   after fewer only when count distinct nodes other than start were visited *)
C24_StoppingRule ==
    pc = "returned" =>
        /\ walk.step <= walk_length * walk.count
        /\ walk.step < walk_length * walk.count =>
              Cardinality(walk.selected \ {walk.start}) >= walk.count

(* C27: a walk of count >= 1 from a start with a neighbour leaves the loop
   with at most count - 1 visited nodes other than start, its result holds
   the start's highest-weight neighbour, and for count = 1 it is that
   neighbour alone *)
C27_BestNeighbourSelected ==
    (pc = "returned" /\ neighbors(graph, walk.start) # <<>> /\ walk.count >= 1) =>
        /\ Cardinality(walk.selected \ {walk.start}) <= walk.count - 1
        /\ Contains(result, Head(get_related_tools(graph, walk.start, 1)))
        /\ walk.count = 1 => result = get_related_tools(graph, walk.start, 1)

(* a walk of count 2 that visited a node other than the start's best
   neighbour, from a start with two neighbours of different weight *)
C27_Witness ==
    /\ pc = "returned"
    /\ walk.count = 2
    /\ Len(neighbors(graph, walk.start)) = 2
    /\ Len(result) = 2
    /\ walk.selected \ {walk.start} # Range(get_related_tools(graph, walk.start, 1))
    /\ walk.selected \ {walk.start} # {}
    /\ \E a, b \in NeighbourSet(graph, walk.start) :
          Weight(graph, walk.start, a) > Weight(graph, walk.start, b)

(* C12: random_walk_selection on a start tool that is not a node returns the
   empty list (a return, not an exception), and the graph is still the graph
   that build_graph made of the tools *)
C12_AbsentStartEmpty ==
    pc = "absent" =>
        /\ result = <<>>
        /\ graph = build_graph(tools, max_edges_per_node)

(* a walk of positive count from an absent start, on a graph with an edge *)
C12_Witness ==
    /\ pc = "absent"
    /\ ~HasNode(graph, walk.start)
    /\ walk.count > 0
    /\ Edges(graph) # {}

(* C20: get_related_tools(tool_id, max_count) with max_count >= 0 returns the
   empty list for a tool that is not a node, and otherwise min(max_count,
   degree) distinct direct neighbours of tool_id in non-increasing weight
   order, none of them lighter than a neighbour left out; the graph is still
   the graph that build_graph made of the tools *)
C20_RelatedTools ==
    pc = "related" =>
        /\ graph = build_graph(tools, max_edges_per_node)
        /\ IF ~HasNode(graph, walk.start) THEN result = <<>>
           ELSE LET nbrs == NeighbourSet(graph, walk.start)
                    w(n) == Weight(graph, walk.start, n)
                IN  /\ NoDup(result)
                    /\ Range(result) \subseteq nbrs
                    /\ Len(result) = IF walk.count < Cardinality(nbrs)
                                     THEN walk.count ELSE Cardinality(nbrs)
                    /\ \A a, b \in 1..Len(result) :
                          a < b => w(result[a]) >= w(result[b])
                    /\ \A n \in nbrs \ Range(result) :
                          \A x \in Range(result) : w(x) >= w(n)

(* the one best neighbour of a tool with two neighbours of different weight,
   the lighter one being first in the adjacency *)
C20_Witness ==
    /\ pc = "related"
    /\ HasNode(graph, walk.start)
    /\ Len(result) = 1
    /\ Len(neighbors(graph, walk.start)) = 2
    /\ Weight(graph, walk.start, neighbors(graph, walk.start)[1])
          < Weight(graph, walk.start, neighbors(graph, walk.start)[2])

----------------------------------------------------------------------------
(* Sample: ToolCombinationGenerator.process *)

ScenarioChoices == {<<"S1">>, <<"S2", "S1">>}

SizeRanges == {<<2, 2>>, <<2, 3>>}

SampleEmbeddings == {<<4, 3>>, <<-3, 4>>}

(* the pools of the sampler: the first tool is in scenario "S1" with embedding
   <<4, 3>> (the other choice gives the same pools up to renaming), the others
   take every scenario list and embedding *)
SamplePools(sizes) ==
    UNION {{[k \in 1..n |-> Tool(k, sc[k], es[k])] :
               sc \in {f \in [1..n -> ScenarioChoices] : f[1] = <<"S1">>},
               es \in {f \in [1..n -> SampleEmbeddings] : f[1] = <<4, 3>>}} :
           n \in sizes}

PoolSizes == {1, 2, 3, 4}

InitSampler(pools, targets) ==
    /\ tools \in pools
    /\ \E sz \in SizeRanges : /\ min_tools_per_agent = sz[1]
                              /\ max_tools_per_agent = sz[2]
    /\ target_count \in targets
    /\ pc = "start"
    /\ result = <<>>
    /\ config = NoConfig
    /\ max_edges_per_node = default_max_edges_per_node
    /\ graph = EmptyGraph
    /\ pass = 0
    /\ offered = 0
    /\ walk = NoWalk
    /\ scenario_groups = <<>>
    /\ scenario_graphs = <<>>
    /\ scenario = 0
    /\ draw = 0
    /\ batch = <<>>
    /\ combinations = <<>>
    /\ clock = 0
    /\ replay = NoReplay
    /\ stats = NoStats

InitSample == InitSampler(SamplePools(PoolSizes), 0..MaxTarget)

(* step 1: _group_tools_by_scenario *)
Group ==
    /\ pc = "start"
    /\ tools # <<>>
    /\ scenario_groups' = _group_tools_by_scenario(tools, min_tools_per_agent)
    /\ scenario' = 1
    /\ pc' = "graphs"
    /\ UNCHANGED <<tools, result, graphVars, min_tools_per_agent, max_tools_per_agent,
                   target_count, scenario_graphs, draw, batch, combinations, clock,
                   replay, stats>>

(* step 2: one iteration of the loop of _build_scenario_graphs *)
BuildScenarioGraph ==
    /\ pc = "graphs"
    /\ scenario <= Len(scenario_groups)
    /\ scenario_graphs' = ScenarioGraphsAfter(scenario_graphs, scenario_groups[scenario])
    /\ scenario' = scenario + 1
    /\ UNCHANGED <<tools, pc, result, graphVars, min_tools_per_agent,
                   max_tools_per_agent, target_count, scenario_groups, draw, batch,
                   combinations, clock, replay, stats>>

GraphsBuilt ==
    /\ pc = "graphs"
    /\ scenario > Len(scenario_groups)
    /\ scenario' = 1
    /\ draw' = 0
    /\ batch' = <<>>
    /\ pc' = "draws"
    /\ UNCHANGED <<tools, result, graphVars, min_tools_per_agent, max_tools_per_agent,
                   target_count, scenario_groups, scenario_graphs, combinations, clock,
                   replay, stats>>

available_tools == scenario_graphs[scenario].graph.nodes

(* the draws of one iteration, as the second call has to repeat them: the
   seed, the size, the walk (given by the list it returned, whose order is that
   of a set of strings filled in the same sequence in the same process) and
   the tools of the top-up *)
Seeded(entry) ==
    IF replay.call = 1 THEN TRUE ELSE replay.rng[replay.pos + 1] = entry

(* step 3: one iteration of the loop of _generate_random_walk_combinations *)
Draw ==
    /\ pc = "draws"
    /\ scenario <= Len(scenario_graphs)
    /\ Len(available_tools) >= min_tools_per_agent
    /\ draw < target_count
    /\ \E start_tool \in Range(available_tools),
          combo_size \in min_tools_per_agent..max_tools_per_agent :
        \E walked \in random_walk_selection(scenario_graphs[scenario].graph,
                                             start_tool, combo_size - 1, NotSet) :
        \E selected_tools \in TopUps(WithStart(walked, start_tool, combo_size),
                                      available_tools, min_tools_per_agent) :
          LET base == WithStart(walked, start_tool, combo_size)
              entry == [start |-> start_tool, size |-> combo_size,
                        walked |-> walked,
                        topup |-> SubSeq(selected_tools, Len(base) + 1,
                                         Len(selected_tools))]
          IN  /\ Seeded(entry)
              /\ replay' = IF replay.call = 1
                           THEN [replay EXCEPT !.rng = Append(@, entry)]
                           ELSE [replay EXCEPT !.pos = @ + 1]
              /\ batch' = IF Len(selected_tools) >= min_tools_per_agent
                          THEN Append(batch,
                                   _create_combination_record(
                                       scenario_graphs[scenario].scenario_id,
                                       selected_tools, "random_walk", start_tool, clock))
                          ELSE batch
    /\ draw' = draw + 1
    /\ UNCHANGED <<tools, pc, result, graphVars, min_tools_per_agent,
                   max_tools_per_agent, target_count, scenario_groups, scenario_graphs,
                   scenario, combinations, clock, stats>>

(* the scenario's loop is over, or was not entered for lack of tools *)
DrawsOver ==
    IF Len(available_tools) < min_tools_per_agent THEN TRUE ELSE draw >= target_count

ScenarioDone ==
    /\ pc = "draws"
    /\ scenario <= Len(scenario_graphs)
    /\ DrawsOver
    /\ combinations' = combinations \o Prefix(batch, target_count)
    /\ scenario' = scenario + 1
    /\ draw' = 0
    /\ batch' = <<>>
    /\ UNCHANGED <<tools, pc, result, graphVars, min_tools_per_agent,
                   max_tools_per_agent, target_count, scenario_groups, scenario_graphs,
                   clock, replay, stats>>

(* step 4: _deduplicate_combinations, and the return *)
Deduplicate ==
    /\ pc = "draws"
    /\ scenario > Len(scenario_graphs)
    /\ result' = _deduplicate_combinations(combinations)
    /\ pc' = "done"
    /\ UNCHANGED <<tools, graphVars, samplerVars>>

Next == Group \/ BuildScenarioGraph \/ GraphsBuilt \/ Draw \/ ScenarioDone \/ Deduplicate

Spec == InitSample /\ [][Next]_vars

----------------------------------------------------------------------------
(* Properties of Sample *)

Records(s) == Range(s)

PrimaryScenario(id) ==
    Head(tools[CHOOSE k \in 1..Len(tools) : tools[k].id = id].scenario_ids)

GraphOf(scenario_id) ==
    scenario_graphs[CHOOSE k \in 1..Len(scenario_graphs) :
                        scenario_graphs[k].scenario_id = scenario_id].graph

Isolated(rec) == neighbors(GraphOf(rec.scenario_id), rec.start_tool) = <<>>

Returned == pc = "done"

(* C1: every returned record has between min_tools_per_agent and
   max_tools_per_agent tool ids *)
C1_SizeBound ==
    Returned =>
        \A rec \in Records(result) :
            /\ min_tools_per_agent <= Len(rec.tool_ids)
            /\ Len(rec.tool_ids) <= max_tools_per_agent

(* a returned list holding a record of the smallest and one of the largest size *)
C1_Witness ==
    /\ Returned
    /\ min_tools_per_agent < max_tools_per_agent
    /\ \E r1, r2 \in Records(result) :
          /\ Len(r1.tool_ids) = min_tools_per_agent
          /\ Len(r2.tool_ids) = max_tools_per_agent

(* C2: no returned record lists a tool id twice *)
C2_NoDuplicateTools ==
    Returned => \A rec \in Records(result) : NoDup(rec.tool_ids)

(* a returned record that was topped up at random after an empty walk, next to
   one filled by the walk alone *)
C2_Witness ==
    /\ Returned
    /\ \E r1, r2 \in Records(result) :
          /\ Isolated(r1)
          /\ Len(r1.tool_ids) >= 2
          /\ ~Isolated(r2)
          /\ Len(r2.tool_ids) = 3

(* C3: no two returned records have the same sorted tool ids *)
C3_GlobalDedup ==
    Returned =>
        \A a, b \in 1..Len(result) :
            Sorted(result[a].tool_ids) = Sorted(result[b].tool_ids) => a = b

(* a run over two scenarios in which a candidate was dropped that lists the
   tools of an earlier candidate in another order *)
C3_Witness ==
    /\ Returned
    /\ Len(scenario_graphs) = 2
    /\ Len(result) < Len(combinations)
    /\ \E a, b \in 1..Len(combinations) :
          /\ a < b
          /\ Sorted(combinations[a].tool_ids) = Sorted(combinations[b].tool_ids)
          /\ combinations[a].tool_ids # combinations[b].tool_ids

(* C4: every graph holds exactly the tools of its scenario group, and every
   tool of a candidate or returned record is a node of the record's scenario
   graph and has the record's scenario as its first scenario id *)
C4_ScenarioContainment ==
    /\ \A k \in 1..Len(scenario_graphs) :
          /\ scenario_graphs[k].scenario_id = scenario_groups[k].scenario_id
          /\ Range(scenario_graphs[k].graph.nodes)
                = {t.id : t \in Range(scenario_groups[k].tools)}
    /\ \A rec \in Records(batch) \cup Records(combinations) \cup Records(result) :
          \A id \in Range(rec.tool_ids) :
              /\ PrimaryScenario(id) = rec.scenario_id
              /\ HasNode(GraphOf(rec.scenario_id), id)

(* a returned list with records of two scenarios, one of them holding a tool
   that names the other scenario as its second scenario id *)
C4_Witness ==
    /\ Returned
    /\ \E r1, r2 \in Records(result) :
          /\ r1.scenario_id = "S1"
          /\ r2.scenario_id = "S2"
          /\ \E id \in Range(r2.tool_ids) :
                \E k \in 1..Len(tools) :
                    tools[k].id = id /\ tools[k].scenario_ids = <<"S2", "S1">>

(* C9: a draw whose seed has no neighbour in the scenario graph produces no
   candidate: no candidate has an isolated seed *)
C9_IsolatedSeedDiscarded ==
    \A rec \in Records(batch) : ~Isolated(rec)

(* C9 as the code has it: every draw produces a candidate, and the candidate
   of an isolated seed is the seed followed by random other tools of the
   scenario, min_tools_per_agent tools in all *)
C9_IsolatedSeedToppedUp ==
    (pc = "draws" /\ scenario <= Len(scenario_graphs)) =>
        /\ Len(batch) = draw
        /\ \A rec \in Records(batch) :
              Isolated(rec) =>
                  /\ Len(rec.tool_ids) = min_tools_per_agent
                  /\ rec.tool_ids[1] = rec.start_tool
                  /\ NoDup(rec.tool_ids)
                  /\ Range(rec.tool_ids) \subseteq Range(available_tools)

(* a candidate whose seed is isolated *)
C9_Witness ==
    /\ pc = "draws"
    /\ \E rec \in Records(batch) : Isolated(rec) /\ Len(rec.tool_ids) = 2

----------------------------------------------------------------------------
(* Replay: process is called a second time in the same Python process on the
   same pool, its random generators seeded as in the first call, while time
   goes on *)

InitReplay == InitSampler(SamplePools({ReplayTools}), {1})

Tick ==
    /\ pc = "draws"
    /\ clock < MaxClock
    /\ clock' = clock + 1
    /\ UNCHANGED <<tools, pc, result, graphVars, min_tools_per_agent,
                   max_tools_per_agent, target_count, scenario_groups, scenario_graphs,
                   scenario, draw, batch, combinations, replay, stats>>

SampleAgain ==
    /\ pc = "done"
    /\ replay.call = 1
    /\ replay' = [replay EXCEPT !.call = 2, !.pos = 0, !.first = result]
    /\ pc' = "start"
    /\ result' = <<>>
    /\ scenario_groups' = <<>>
    /\ scenario_graphs' = <<>>
    /\ scenario' = 0
    /\ draw' = 0
    /\ batch' = <<>>
    /\ combinations' = <<>>
    /\ UNCHANGED <<tools, graphVars, min_tools_per_agent, max_tools_per_agent,
                   target_count, clock, stats>>

NextReplay == Next \/ Tick \/ SampleAgain

SpecReplay == InitReplay /\ [][NextReplay]_vars


(* C10: a second call on the same pool with the same parameters and the same
   random draws returns the same records as the first *)
C10_SameDrawsSameRecords ==
    (replay.call = 2 /\ pc = "done") => result = replay.first

----------------------------------------------------------------------------
(* Partial: process on pools with tools of a second scenario, tools without
   scenario, tools without metadata, embeddings of two lengths, and on the empty pool, followed by
   get_combination_stats over what it returned *)

PartialScenarios == {<<"S1">>, <<"S2">>, <<>>}

PartialMetadata ==
    {[metadata |-> TRUE, embedding |-> <<4, 3>>],
     [metadata |-> TRUE, embedding |-> <<4, 3, 0>>],
     [metadata |-> FALSE, embedding |-> NoEmbedding]}

(* the first tool is in scenario "S1" with embedding <<4, 3>> *)
PartialPools(sizes) ==
    UNION {{[k \in 1..n |->
                [id |-> k, scenario_ids |-> sc[k],
                 embedding |-> md[k].embedding, metadata |-> md[k].metadata]] :
               sc \in {f \in [1..n -> PartialScenarios] : n = 0 \/ f[1] = <<"S1">>},
               md \in {f \in [1..n -> PartialMetadata] :
                          n = 0 \/ f[1].embedding = <<4, 3>>}} :
           n \in sizes}

PartialSizes == {0, 1, 2, 3, 4}

PartialTargets == {0, 1, 2}

InitPartial == InitSampler(PartialPools(PartialSizes), PartialTargets)

(* process: raise AgentDataGenException("No tools provided") *)
Reject ==
    /\ pc = "start"
    /\ tools = <<>>
    /\ pc' = "raised"
    /\ UNCHANGED <<tools, result, graphVars, samplerVars>>

(* get_combination_stats(combinations) on the list process returned *)
GetStats ==
    /\ pc = "done"
    /\ stats' = get_combination_stats(result)
    /\ pc' = "stats"
    /\ UNCHANGED <<tools, result, graphVars, min_tools_per_agent, max_tools_per_agent,
                   target_count, scenario_groups, scenario_graphs, scenario, draw,
                   batch, combinations, clock, replay>>

NextPartial == Next \/ Reject \/ GetStats

SpecPartial == InitPartial /\ [][NextPartial]_vars

----------------------------------------------------------------------------
(* Properties of Partial *)

AllGroups == GroupAll(<<>>, tools)

Undersized == {grp \in Range(AllGroups) : Len(grp.tools) < min_tools_per_agent}

Histogram(dist) == {dist[k][1] : k \in 1..Len(dist)}

AllRecords == Records(batch) \cup Records(combinations) \cup Records(result)

Ids(ts) == {t.id : t \in Range(ts)}

(* C11: a scenario group with fewer than min_tools_per_agent tools is not among
   the groups Group returns, has no graph, has none of its tools in a graph,
   gives its scenario id and its tools to no candidate or returned record, and
   is not a key of the scenario histogram of the statistics; the other groups
   are returned whole and in their order *)
C11_UndersizedGroupDropped ==
    pc \notin {"start", "raised"} =>
        /\ \A grp \in Undersized :
              /\ \A k \in 1..Len(scenario_groups) :
                    scenario_groups[k].scenario_id # grp.scenario_id
              /\ \A k \in 1..Len(scenario_graphs) :
                    /\ scenario_graphs[k].scenario_id # grp.scenario_id
                    /\ Range(scenario_graphs[k].graph.nodes) \cap Ids(grp.tools) = {}
              /\ \A rec \in AllRecords :
                    /\ rec.scenario_id # grp.scenario_id
                    /\ Range(rec.tool_ids) \cap Ids(grp.tools) = {}
              /\ (stats.called /\ ~stats.empty) =>
                    grp.scenario_id \notin Histogram(stats.scenario_distribution)
        /\ scenario_groups = SelectSeqBy(AllGroups, Range(AllGroups) \ Undersized)

(* statistics with a histogram over the records of one scenario, taken of a
   call whose pool held an undersized group of another scenario *)
C11_Witness ==
    /\ pc = "stats"
    /\ Undersized # {}
    /\ ~stats.empty
    /\ Histogram(stats.scenario_distribution) # {}

Raising == {grp \in Range(scenario_groups) : BuildRaises(grp.tools)}

(* C13: process raises only on the empty pool; the graphs are those of the
   retained groups whose build does not raise, in order; a group whose build
   raises has no graph and no candidate or returned record; every other
   retained group has a returned record when target_count is positive, every
   candidate is returned up to deduplication, and a call without candidates
   returns the empty list *)
C13_BuildFailureSkipsScenario ==
    /\ pc = "raised" => tools = <<>>
    /\ pc \in {"draws", "done", "stats"} =>
          LET built == SelectSeqBy(scenario_groups, Range(scenario_groups) \ Raising)
          IN  /\ Len(scenario_graphs) = Len(built)
              /\ \A k \in 1..Len(built) :
                    /\ scenario_graphs[k].scenario_id = built[k].scenario_id
                    /\ scenario_graphs[k].graph
                          = build_graph(built[k].tools, default_max_edges_per_node)
              /\ \A grp \in Raising :
                    \A rec \in AllRecords : rec.scenario_id # grp.scenario_id
    /\ pc \in {"done", "stats"} =>
          /\ \A k \in 1..Len(scenario_graphs) :
                target_count > 0 =>
                    \E rec \in Records(result) :
                        rec.scenario_id = scenario_graphs[k].scenario_id
          /\ \A rec \in Records(combinations) :
                \E r \in Records(result) :
                    /\ r.scenario_id = rec.scenario_id
                    /\ Sorted(r.tool_ids) = Sorted(rec.tool_ids)
          /\ combinations = <<>> => result = <<>>

(* a call that returned records of one scenario while the build of another
   retained scenario's graph had raised *)
C13_Witness ==
    /\ pc = "done"
    /\ Raising # {}
    /\ result # <<>>
    /\ \E grp \in Raising : Len(grp.tools) >= 2

MixedLengths(ts) ==
    \E a, b \in Range(ts) :
        /\ Truthy(a.embedding)
        /\ Truthy(b.embedding)
        /\ Len(a.embedding) # Len(b.embedding)

(* C14: when the tools of the call carry embeddings of different lengths, no
   graph is built from tools of different lengths and the call returns no
   record *)
C14_MixedLengthsRejected ==
    /\ \A k \in 1..Len(scenario_graphs) :
          \A grp \in Range(scenario_groups) :
              grp.scenario_id = scenario_graphs[k].scenario_id => ~MixedLengths(grp.tools)
    /\ MixedLengths(tools) => ~(pc = "done" /\ result # <<>>)

----------------------------------------------------------------------------
(* Properties of the record id, under Replay *)

(* C15: two records with the same scenario and the same set of tool ids have
   the same id, whatever the order of their tool ids and whenever they were
   created: among the records of the first call and those of the second *)
C15_IdFromContent ==
    \A r1, r2 \in Records(replay.first) \cup AllRecords :
        ( /\ r1.scenario_id = r2.scenario_id
          /\ Sorted(r1.tool_ids) = Sorted(r2.tool_ids) )
        => r1.id = r2.id

----------------------------------------------------------------------------
(* Dedup: _deduplicate_combinations on candidate lists of any make, and again
   on its own output *)

CandidateToolIds == {<<1, 2>>, <<2, 1>>, <<1, 3>>, <<3, 2, 1>>}

CandidateScenarios == {"S1", "S2"}

CandidateRecords ==
    {_create_combination_record(sc, ids, "random_walk", Head(ids), 0) :
        sc \in CandidateScenarios, ids \in CandidateToolIds}

InitDedup ==
    /\ combinations \in UNION {[1..n -> CandidateRecords] : n \in 0..MaxCandidates}
    /\ tools = <<>>
    /\ pc = "start"
    /\ result = <<>>
    /\ config = NoConfig
    /\ max_edges_per_node = default_max_edges_per_node
    /\ graph = EmptyGraph
    /\ pass = 0
    /\ offered = 0
    /\ walk = NoWalk
    /\ min_tools_per_agent = 0
    /\ max_tools_per_agent = 0
    /\ target_count = 0
    /\ scenario_groups = <<>>
    /\ scenario_graphs = <<>>
    /\ scenario = 0
    /\ draw = 0
    /\ batch = <<>>
    /\ clock = 0
    /\ replay = NoReplay
    /\ stats = NoStats

(* _deduplicate_combinations(combinations) *)
DedupCall ==
    /\ pc = "start"
    /\ result' = _deduplicate_combinations(combinations)
    /\ pc' = "deduplicated"
    /\ UNCHANGED <<tools, graphVars, samplerVars>>

(* _deduplicate_combinations on the list the first call returned *)
DedupAgain ==
    /\ pc = "deduplicated"
    /\ combinations' = result
    /\ result' = _deduplicate_combinations(result)
    /\ pc' = "again"
    /\ UNCHANGED <<tools, graphVars, min_tools_per_agent, max_tools_per_agent,
                   target_count, scenario_groups, scenario_graphs, scenario, draw,
                   batch, clock, replay, stats>>

NextDedup == DedupCall \/ DedupAgain

SpecDedup == InitDedup /\ [][NextDedup]_vars

(* the positions of the candidates that have no earlier candidate with the
   same set of tool ids *)
FirstSeen(combos) ==
    {a \in 1..Len(combos) :
        \A b \in 1..(a - 1) : Sorted(combos[b].tool_ids) # Sorted(combos[a].tool_ids)}

(* C16: the deduplicated list is the candidate list restricted to the first
   candidate of every set of tool ids, in the candidates' order, whatever the
   order of the tool ids and the scenario of the candidates; deduplicating it
   again returns it unchanged *)
C16_FirstSeenKept ==
    /\ pc \in {"deduplicated", "again"} =>
          /\ Len(result) = Cardinality(FirstSeen(combinations))
          /\ \A k \in 1..Len(result) :
                result[k] = combinations[CHOOSE a \in FirstSeen(combinations) :
                                Cardinality({b \in FirstSeen(combinations) : b < a}) = k - 1]
    /\ pc = "again" => result = combinations

(* three candidates of which the third is dropped: it has the tool ids of the
   first in another order and under another scenario *)
C16_Witness ==
    /\ pc = "deduplicated"
    /\ Len(combinations) = 3
    /\ Len(result) = 2
    /\ Sorted(combinations[3].tool_ids) = Sorted(combinations[1].tool_ids)
    /\ combinations[3].tool_ids # combinations[1].tool_ids
    /\ combinations[3].scenario_id # combinations[1].scenario_id

----------------------------------------------------------------------------
(* the tools that _group_tools_by_scenario appends to no_scenario_tools *)
NoScenarioTools == SelectSeqBy(tools, {t \in Range(tools) : t.scenario_ids = <<>>})

(* C22: once the tools are grouped, the groups hold an entry with exactly the
   tools without scenario when these are at least min_tools_per_agent, and a
   tool with a scenario is in no group but that of its first scenario id, and
   there at most once *)
C22_SentinelGroup ==
    pc \notin {"start", "raised"} =>
        /\ Len(NoScenarioTools) >= min_tools_per_agent =>
              \E k \in 1..Len(scenario_groups) :
                  scenario_groups[k].tools = NoScenarioTools
        /\ \A t \in Range(tools), k \in 1..Len(scenario_groups) :
              (t.scenario_ids # <<>> /\ t \in Range(scenario_groups[k].tools)) =>
                  /\ scenario_groups[k].scenario_id = Head(t.scenario_ids)
                  /\ Cardinality({j \in 1..Len(scenario_groups[k].tools) :
                                     scenario_groups[k].tools[j] = t}) = 1
                  /\ \A j \in 1..Len(scenario_groups) :
                        t \in Range(scenario_groups[j].tools) => j = k

(* C26, as stated: every scenario group of at least min_tools_per_agent tools
   contributes exactly target_count candidates before deduplication *)
C26_EveryRetainedGroupContributes ==
    pc \in {"done", "stats"} =>
        Len(combinations) = Len(scenario_groups) * target_count

(* C26: in a scenario whose graph was built every draw adds a candidate, each
   such scenario contributes exactly target_count candidates before
   deduplication, a retained scenario whose build failed contributes none,
   and process returns at most (retained scenarios) * target_count records *)
C26_BuiltScenarioContributes ==
    /\ (pc = "draws" /\ scenario <= Len(scenario_graphs)) =>
          /\ Len(available_tools) >= min_tools_per_agent
          /\ Len(batch) = draw
          /\ Len(combinations) = (scenario - 1) * target_count
    /\ pc \in {"done", "stats"} =>
          /\ Len(combinations) = Len(scenario_graphs) * target_count
          /\ \A sg \in Range(scenario_graphs) :
                Cardinality({k \in 1..Len(combinations) :
                                combinations[k].scenario_id = sg.scenario_id})
                  = target_count
          /\ \A grp \in Raising :
                \A k \in 1..Len(combinations) :
                    combinations[k].scenario_id # grp.scenario_id
          /\ Len(result) <= Len(scenario_groups) * target_count

(* two draws in a scenario of two tools without an edge, each filled by the
   top-up, next to a retained scenario whose build failed *)
C26_Witness ==
    /\ pc = "done"
    /\ target_count = 2
    /\ Raising # {}
    /\ Len(combinations) = 2
    /\ \A k \in 1..Len(combinations) :
          \E sg \in Range(scenario_graphs) :
              /\ sg.scenario_id = combinations[k].scenario_id
              /\ neighbors(sg.graph, combinations[k].start_tool) = <<>>

(* C29: in every record the first tool id is the record's start tool *)
C29_SeedFirst ==
    \A rec \in AllRecords :
        /\ rec.tool_ids # <<>>
        /\ rec.tool_ids[1] = rec.start_tool

(* a returned record of three tools whose start tool has not the smallest id *)
C29_Witness ==
    /\ pc = "done"
    /\ \E k \in 1..Len(result) :
          /\ Len(result[k].tool_ids) = 3
          /\ result[k].start_tool > result[k].tool_ids[2]

----------------------------------------------------------------------------
(* Rebuild: build_graph called again and again on one instance *)

RebuildEmbeddings == {<<4, 3>>, <<3, 4>>, NoEmbedding}

RebuildPools == UNION {PoolsOver(n, RebuildEmbeddings) : n \in 1..RebuildTools}

InitRebuild ==
    /\ tools \in RebuildPools
    /\ config = NoConfig
    /\ max_edges_per_node = default_max_edges_per_node
    /\ graph = EmptyGraph
    /\ pc = "start"
    /\ pass = 0
    /\ offered = 0
    /\ walk = NoWalk
    /\ result = <<>>
    /\ SamplerIdle

(* build_graph(tools) is called on the instance that holds a built graph;
   result keeps the nodes of that graph *)
BuildAgain ==
    /\ pc = "built"
    /\ tools' \in RebuildPools
    /\ result' = graph.nodes
    /\ pc' = "start"
    /\ UNCHANGED <<config, max_edges_per_node, graph, pass, offered, walk, samplerVars>>

NextRebuild == BuildBegin \/ BuildPass \/ BuildEnd \/ BuildAgain

SpecRebuild == InitRebuild /\ [][NextRebuild]_vars

(* C25: when build_graph returns, whatever was built on the instance before,
   the graph has one node per tool, the nodes are the ids of the tools, and
   the graph is the one a new instance builds from the same tools *)
C25_BuildReplaces ==
    pc = "built" =>
        /\ Range(graph.nodes) = Ids(tools)
        /\ Len(graph.nodes) = Len(tools)
        /\ graph = build_graph(tools, max_edges_per_node)

(* a graph with an edge, built after a graph that had a node it does not
   have *)
C25_Witness ==
    /\ pc = "built"
    /\ \E n \in Range(result) : ~HasNode(graph, n)
    /\ Len(tools) = 2
    /\ HasEdge(graph, 1, 2)

----------------------------------------------------------------------------
(* Restart: random_walk_selection called with a restart probability *)

(* restart_prob as the caller passes it, in hundredths: 0.0, 0.5, or not at
   all *)
RestartArgs == {0, 50, NotSet}

RestartCounts == {1, 2}

InitRestart ==
    /\ tools \in UNION {PoolsOver(n, WalkEmbeddings) : n \in 1..RestartTools}
    /\ config = NoConfig
    /\ max_edges_per_node = default_max_edges_per_node
    /\ graph = EmptyGraph
    /\ pc = "start"
    /\ pass = 0
    /\ offered = 0
    /\ walk = NoWalk
    /\ result = <<>>
    /\ SamplerIdle

(* random_walk_selection(start_tool, count, restart_prob) on a node *)
RestartWalkBegin ==
    /\ pc \in {"built", "returned"}
    /\ \E start_tool \in Range(graph.nodes), count \in RestartCounts,
          restart_prob \in RestartArgs :
          walk' = WalkStart(start_tool, count, restart_prob)
    /\ result' = <<>>
    /\ pc' = "walking"
    /\ UNCHANGED <<tools, config, max_edges_per_node, graph, pass, offered, samplerVars>>

NextRestart == Build \/ RestartWalkBegin \/ WalkIter \/ WalkReturn

SpecRestart == InitRestart /\ [][NextRestart]_vars

(* C30: in a walk called with restart_prob = 0, an iteration at a node with
   neighbours moves to one of these neighbours *)
C30_ZeroRestartHonoured ==
    [][(pc = "walking" /\ pc' = "walking" /\ walk.restart_arg = 0
          /\ neighbors(graph, walk.current) # <<>>)
       => Contains(neighbors(graph, walk.current), walk'.current)]_vars

----------------------------------------------------------------------------
(* Config: build_graph on an instance constructed with a configuration *)

(* no configuration, or one that sets one of the five parameters *)
ConfigChoices ==
    {NoConfig,
     [NoConfig EXCEPT !.similarity_threshold = 90],
     [NoConfig EXCEPT !.min_similarity_threshold = 90],
     [NoConfig EXCEPT !.max_edges_per_node = 1],
     [NoConfig EXCEPT !.restart_probability = 50],
     [NoConfig EXCEPT !.walk_length = 2]}

ConfigEmbeddings == {<<4, 3>>, <<3, 4>>, <<5, 0>>}

InitConfig ==
    /\ tools \in UNION {PoolsOver(n, ConfigEmbeddings) : n \in 1..ConfigTools}
    /\ config \in ConfigChoices
    /\ max_edges_per_node = ToolGraphInit(config).max_edges_per_node
    /\ graph = EmptyGraph
    /\ pc = "start"
    /\ pass = 0
    /\ offered = 0
    /\ walk = NoWalk
    /\ result = <<>>
    /\ SamplerIdle

SpecConfig == InitConfig /\ [][NextBuild]_vars

(* C23: an instance constructed with a configuration that sets
   max_edges_per_node builds its graph with that cap on every ranking *)
C23_ConfigOverrides ==
    (pc = "built" /\ config.max_edges_per_node # NotSet) =>
        graph = build_graph(tools, config.max_edges_per_node)

----------------------------------------------------------------------------
(* Cluster: get_tool_cluster run iteration by iteration on a built graph *)

ClusterEmbeddings == {<<3, 4>>, <<4, 3>>, <<5, 0>>}

InitCluster ==
    /\ tools \in UNION {PoolsOver(n, ClusterEmbeddings) : n \in 1..ClusterTools}
    /\ config = NoConfig
    /\ max_edges_per_node = default_max_edges_per_node
    /\ graph = EmptyGraph
    /\ pc = "start"
    /\ pass = 0
    /\ offered = 0
    /\ walk = NoWalk
    /\ result = <<>>
    /\ SamplerIdle

(* get_tool_cluster(tool_id, max_size) on a node of the graph *)
ClusterBegin ==
    /\ pc \in {"built", "clustered"}
    /\ \E tool_id \in Range(graph.nodes), max_size \in 1..MaxSize :
          walk' = ClusterStart(tool_id, max_size)
    /\ result' = <<>>
    /\ pc' = "clustering"
    /\ UNCHANGED <<tools, config, max_edges_per_node, graph, pass, offered, samplerVars>>

(* get_tool_cluster(tool_id, max_size) on an id that is not a node: the id
   alone when tools_data knows it, the empty list otherwise *)
ClusterAbsent ==
    /\ pc \in {"built", "clustered"}
    /\ \E tool_id \in (1..(ClusterTools + 1)) \ Range(graph.nodes), max_size \in 1..MaxSize :
          /\ walk' = ClusterStart(tool_id, max_size)
          /\ result' = IF tool_id \in {t.id : t \in Range(tools)} THEN <<tool_id>> ELSE <<>>
    /\ pc' = "clustered"
    /\ UNCHANGED <<tools, config, max_edges_per_node, graph, pass, offered, samplerVars>>

ClusterStep ==
    /\ pc = "clustering"
    /\ ~ClusterOver(walk)
    /\ walk' = ClusterBody(graph, walk)
    /\ UNCHANGED <<tools, config, max_edges_per_node, graph, pc, pass, offered, result,
                   samplerVars>>

ClusterReturn ==
    /\ pc = "clustering"
    /\ ClusterOver(walk)
    /\ result' = walk.cluster
    /\ pc' = "clustered"
    /\ UNCHANGED <<tools, config, max_edges_per_node, graph, pass, offered, walk,
                   samplerVars>>

NextCluster == Build \/ ClusterBegin \/ ClusterAbsent \/ ClusterStep \/ ClusterReturn

SpecCluster == InitCluster /\ [][NextCluster]_vars

(* number of edges on a shortest path from the nodes of S to n, S being k
   edges away from the origin *)
RECURSIVE DistFrom(_, _, _, _)
DistFrom(g, S, n, k) ==
    IF n \in S THEN k
    ELSE DistFrom(g, S \cup UNION {Range(neighbors(g, m)) : m \in S}, n, k + 1)

(* C21: the cluster of a node, for max_size >= 1, has no duplicates, starts
   with the node, has at most max_size ids, has every later id adjacent to an
   earlier one, and lists the ids by non-decreasing distance from the node *)
C21_ClusterShape ==
    (pc = "clustered" /\ HasNode(graph, walk.tool_id)) =>
        /\ NoDup(result)
        /\ result # <<>>
        /\ result[1] = walk.tool_id
        /\ Len(result) <= walk.max_size
        /\ \A k \in 2..Len(result) :
              \E j \in 1..(k - 1) : HasEdge(graph, result[j], result[k])
        /\ \A a, b \in 1..Len(result) :
              a < b => DistFrom(graph, {walk.tool_id}, result[a], 0)
                         <= DistFrom(graph, {walk.tool_id}, result[b], 0)

(* a cluster of three ids that ends two edges away from its first id and
   leaves a node of the component out *)
C21_Witness ==
    /\ pc = "clustered"
    /\ HasNode(graph, walk.tool_id)
    /\ Len(result) = 3
    /\ walk.max_size = 3
    /\ ~HasEdge(graph, result[1], result[3])
    /\ Cardinality(Reach(graph, {walk.tool_id})) = 4

(* C28: the cluster of a node has min(max_size, size of the node's connected
   component) ids *)
C28_ClusterFillsBound ==
    (pc = "clustered" /\ HasNode(graph, walk.tool_id)) =>
        LET component == Cardinality(Reach(graph, {walk.tool_id}))
        IN  Len(result) = IF walk.max_size < component THEN walk.max_size ELSE component

====
